---- MODULE Spec2Model ----
(***************************************************************************)
(* Model of the My_Internet server's filter-rule engine                    *)
(* (server/src/filter_rules.py), its EasyList store                        *)
(* (server/src/db_manager.py) and the EasyList refresh cycle               *)
(* (server/src/easylist_manager.py).                                       *)
(*                                                                         *)
(* A Python str is modelled as a sequence of one-character strings, so     *)
(* that strip/split/replace/slicing, the regular-expression search and the *)
(* SQLite GLOB are computed character by character as the code does.       *)
(***************************************************************************)
EXTENDS Integers, Sequences, FiniteSets, TLC

VARIABLES
    raw_pattern,   \* the raw text handed to FilterRule(...)
    rule,          \* the constructed FilterRule, or the exception it raised
    cand,          \* the (url, domain) pair of the last matches() call
    result,        \* outcome of the last matches() call
    rpc,           \* the rule harness: "new", "built", "matched" ("idle" under Spec)
    easylist,      \* rows (entry, category) of the easylist table, entry UNIQUE
    running,       \* EasyListManager.running
    update_timer,  \* EasyListManager.update_timer: 0 (None) or the Timer thread
    pc,            \* per thread: where it stands in its Timer / _perform_update
    rules,         \* per thread: the local list "rules" of _perform_update, while live
    failed,        \* per thread: the download of its cycle raised
    prev_set,      \* per thread: the table just before its clear, until its store returns
    response,      \* per thread: response.text of its download, while live
    last_refresh,  \* history: text of the refresh that last stored, and how often in a row
    obs,           \* the is_easylist_blocked call that has just returned, if any
    blocked_domains, \* rows (domain, active) of the blocked_domains table
    feature_states,  \* the feature_states table: feature -> state
    data,          \* server: the bytes the last conn.recv returned
    sent,          \* server: what was sent on conn in answer to data
    factory_calls, \* server: the request_factory.handle_request calls made for data
    dns,           \* the DNS configuration the last DNS script run has set
    kernel,        \* server: the last kernel query read, and what it led to
    last_add,      \* history: the domains whose last direct database call was an add
    Server_running,  \* Server.running
    client_thread,   \* where handle_client_thread stands
    conns,           \* how many connections client_socket.accept has returned
    closes,          \* how often close was called on the listening socket and on connections
    _socket,       \* client: Communicator._socket
    receiver,      \* client: the receive_message thread
    inbound,       \* client: server messages not yet read from the socket
    delivered,     \* client: the last message handed to _handle_request, and by whom
    view_call,     \* client: the Viewer method called for delivered
    outbound,      \* client: what was written to the socket for delivered
    fault          \* client: the Communicator call that raised last, and what

rvars == <<raw_pattern, rule, cand, result, rpc>>

evars == <<easylist, running, update_timer, pc, rules, failed, prev_set,
           response, last_refresh, obs>>

tvars == <<Server_running, client_thread, conns, closes>>

svars == <<blocked_domains, feature_states, data, sent, factory_calls, dns,
           kernel, last_add, tvars>>

cvars == <<_socket, receiver, inbound, delivered, view_call, outbound, fault>>

vars == <<rvars, evars, svars, cvars>>

---------------------------------------------------------------------------
(* Python str helpers *)

Whitespace == {" ", "\t", "\n", "\r"}

StartsWith(s, p) ==
    Len(s) >= Len(p) /\ SubSeq(s, 1, Len(p)) = p

EndsWith(s, p) ==
    Len(s) >= Len(p) /\ SubSeq(s, Len(s) - Len(p) + 1, Len(s)) = p

Contains(s, c) == \E i \in 1..Len(s) : s[i] = c

RECURSIVE LStrip(_)
LStrip(s) ==
    IF s # <<>> /\ Head(s) \in Whitespace THEN LStrip(Tail(s)) ELSE s

RECURSIVE RStrip(_)
RStrip(s) ==
    IF s # <<>> /\ s[Len(s)] \in Whitespace
    THEN RStrip(SubSeq(s, 1, Len(s) - 1))
    ELSE s

Strip(s) == RStrip(LStrip(s))

\* str.split(sep) for a one-character separator: always at least one piece
RECURSIVE Split(_, _)
Split(s, sep) ==
    IF ~Contains(s, sep) THEN <<s>>
    ELSE LET i == CHOOSE k \in 1..Len(s) :
                      s[k] = sep /\ \A j \in 1..(k - 1) : s[j] # sep
         IN  <<SubSeq(s, 1, i - 1)>> \o Split(SubSeq(s, i + 1, Len(s)), sep)

\* str.replace(old, new) for a one-character old
RECURSIVE Replace(_, _, _)
Replace(s, old, new) ==
    IF s = <<>> THEN <<>>
    ELSE (IF Head(s) = old THEN new ELSE <<Head(s)>>)
         \o Replace(Tail(s), old, new)

\* Python slices s[a:], s[a:-1]
SliceFrom(s, a) == SubSeq(s, a + 1, Len(s))

SliceFromDropLast(s, a) == SubSeq(s, a + 1, Len(s) - 1)

---------------------------------------------------------------------------
(* filter_rules.py *)

DOMAIN_T == "domain"

EXACT == "exact"

WILDCARD == "wildcard"

EXCEPTION == "exception"

PatternType == {DOMAIN_T, EXACT, WILDCARD, EXCEPTION}

_determine_pattern_type(raw) ==
    LET pattern == Strip(raw)
    IN  IF StartsWith(pattern, <<"@", "@">>) THEN EXCEPTION
        ELSE IF StartsWith(pattern, <<"|", "|">>) THEN DOMAIN_T
        ELSE IF StartsWith(pattern, <<"|">>) /\ EndsWith(pattern, <<"|">>)
             THEN EXACT
        ELSE WILDCARD

\* _process_pattern with the Domain branch written pattern[2:], the trailing
\* "^" left in place
_process_pattern_keeping_caret(raw, pattern_type) ==
    LET stripped == Strip(raw)
        pattern  == IF Contains(stripped, "$")
                    THEN Split(stripped, "$")[1]
                    ELSE stripped
    IN  IF pattern_type = EXCEPTION THEN SliceFrom(pattern, 2)
        ELSE IF pattern_type = DOMAIN_T THEN SliceFrom(pattern, 2)
        ELSE IF pattern_type = EXACT THEN SliceFromDropLast(pattern, 1)
        ELSE pattern

_process_pattern(raw, pattern_type) ==
    LET stripped == Strip(raw)
        pattern  == IF Contains(stripped, "$")
                    THEN Split(stripped, "$")[1]
                    ELSE stripped
    IN  IF pattern_type = EXCEPTION THEN SliceFrom(pattern, 2)
        ELSE IF pattern_type = DOMAIN_T THEN SliceFromDropLast(pattern, 2)
        ELSE IF pattern_type = EXACT THEN SliceFromDropLast(pattern, 1)
        ELSE pattern

\* an option value: a str (flag = FALSE) or the bool True (flag = TRUE)
StrVal(v) == [flag |-> FALSE, str |-> v]

TrueVal == [flag |-> TRUE, str |-> <<>>]

NoOptions == [k \in {} |-> TrueVal]

\* the body of the for loop of _parse_options over the tokens opts[i..]:
\* ok = FALSE when "key, value = opt.split('=')" raises ValueError
RECURSIVE OptionsLoop(_, _, _)
OptionsLoop(opts, i, options) ==
    IF i > Len(opts) THEN [ok |-> TRUE, options |-> options]
    ELSE LET opt == opts[i]
         IN  IF Contains(opt, "=")
             THEN LET kv == Split(opt, "=")
                  IN  IF Len(kv) # 2
                      THEN [ok |-> FALSE, options |-> NoOptions]
                      ELSE OptionsLoop(opts, i + 1,
                               (kv[1] :> StrVal(kv[2])) @@ options)
             ELSE OptionsLoop(opts, i + 1, (opt :> TrueVal) @@ options)

_parse_options(raw) ==
    IF Contains(raw, "$")
    THEN LET options_part == Split(raw, "$")[2]
         IN  OptionsLoop(Split(options_part, ","), 1, NoOptions)
    ELSE [ok |-> TRUE, options |-> NoOptions]

\* FilterRule.__init__: raised = "none" and the four attributes, or the
\* exception that left the constructor
FilterRule(raw) ==
    LET pattern_type == _determine_pattern_type(raw)
        processed    == _process_pattern(raw, pattern_type)
        parsed       == _parse_options(raw)
    IN  [raised            |-> IF parsed.ok THEN "none" ELSE "ValueError",
         raw_pattern       |-> raw,
         pattern_type      |-> pattern_type,
         processed_pattern |-> processed,
         options           |-> parsed.options]

---------------------------------------------------------------------------
(* the regular expression built by matches(), and re.search over it.       *)
(* Covered syntax: "\\." (escaped dot), ".*", ".", "^" (start of string),   *)
(* "|" (alternation), "(" (always unbalanced here: ")" is not in any       *)
(* modelled pattern), every other modelled character is a literal.         *)

\* regex_pattern without the escaping of "." (the first replace left out)
regex_pattern_dot_unescaped(processed_pattern) ==
    Replace(Replace(processed_pattern, "*", <<".", "*">>), "?", <<".">>)

regex_pattern(processed_pattern) ==
    Replace(Replace(Replace(processed_pattern,
                            ".", <<"\\", ".">>),
                    "*", <<".", "*">>),
            "?", <<".">>)

\* re.compile raises re.error ("missing ), unterminated subpattern")
RegexCompiles(re) == ~Contains(re, "(")

\* does the alternative re[i..] match s from position j on
RECURSIVE MatchHere(_, _, _, _)
MatchHere(re, i, s, j) ==
    IF i > Len(re) THEN TRUE
    ELSE IF re[i] = "\\"
         THEN j <= Len(s) /\ s[j] = re[i + 1] /\ MatchHere(re, i + 2, s, j + 1)
    ELSE IF re[i] = "." /\ i < Len(re) /\ re[i + 1] = "*"
         THEN \E k \in j..(Len(s) + 1) :
                  /\ \A m \in j..(k - 1) : s[m] # "\n"
                  /\ MatchHere(re, i + 2, s, k)
    ELSE IF re[i] = "."
         THEN j <= Len(s) /\ s[j] # "\n" /\ MatchHere(re, i + 1, s, j + 1)
    ELSE IF re[i] = "^"
         THEN j = 1 /\ MatchHere(re, i + 1, s, j)
    ELSE j <= Len(s) /\ s[j] = re[i] /\ MatchHere(re, i + 1, s, j + 1)

\* bool(re.search(re, s)) for a pattern that compiles
RegexSearch(re, s) ==
    LET alts == Split(re, "|")
    IN  \E a \in 1..Len(alts) : \E start \in 1..(Len(s) + 1) :
            MatchHere(alts[a], 1, s, start)

\* the outcome of a call: the value returned, or the exception raised
Returned(b) == [raised |-> "none", value |-> b]

Raised(e) == [raised |-> e, value |-> FALSE]

\* any(domain.endswith(d) for d in allowed_domains)
AnyEndsWith(domain, allowed_domains) ==
    \E i \in 1..Len(allowed_domains) : EndsWith(domain, allowed_domains[i])

\* the dispatch on pattern_type, lines 70-82
MatchByType(r, url, domain) ==
    IF r.pattern_type = DOMAIN_T
    THEN Returned(EndsWith(domain, r.processed_pattern))
    ELSE IF r.pattern_type = EXACT
    THEN Returned(url = r.processed_pattern)
    ELSE LET re == regex_pattern(r.processed_pattern)
         IN  IF RegexCompiles(re)
             THEN Returned(RegexSearch(re, url))
             ELSE Raised("re.error")

\* matches without the check of the "domain" option (lines 64-67 left out)
matches_without_domain_check(r, url, domain) ==
    MatchByType(r, url, domain)

\* FilterRule.matches
matches(r, url, domain) ==
    IF <<"d", "o", "m", "a", "i", "n">> \in DOMAIN r.options
    THEN LET v == r.options[<<"d", "o", "m", "a", "i", "n">>]
         IN  IF v.flag THEN Raised("AttributeError")
             ELSE IF ~AnyEndsWith(domain, Split(v.str, "|"))
                  THEN Returned(FALSE)
                  ELSE MatchByType(r, url, domain)
    ELSE MatchByType(r, url, domain)

---------------------------------------------------------------------------
(* inputs *)

\* "||example.com^"
P_domain_caret ==
    <<"|", "|", "e", "x", "a", "m", "p", "l", "e", ".", "c", "o", "m", "^">>

\* "||example.com"
P_domain_bare ==
    <<"|", "|", "e", "x", "a", "m", "p", "l", "e", ".", "c", "o", "m">>

\* "@@||example.com^"
P_exception_domain ==
    <<"@", "@", "|", "|", "e", "x", "a", "m", "p", "l", "e", ".", "c", "o", "m", "^">>

\* "ads"
P_ads ==
    <<"a", "d", "s">>

\* "@@ads"
P_exception_ads ==
    <<"@", "@", "a", "d", "s">>

\* "ads$a=b=c"
P_two_equals ==
    <<"a", "d", "s", "$", "a", "=", "b", "=", "c">>

\* "ads$script$image"
P_two_dollars ==
    <<"a", "d", "s", "$", "s", "c", "r", "i", "p", "t", "$", "i", "m", "a", "g", "e">>

\* "ads$domain"
P_flag_domain ==
    <<"a", "d", "s", "$", "d", "o", "m", "a", "i", "n">>

\* "ads.js$domain=foo.com|bar.com"
P_domain_opt ==
    <<"a", "d", "s", ".", "j", "s", "$", "d", "o", "m", "a", "i", "n", "=", "f", "o", "o", ".", "c", "o", "m", "|", "b", "a", "r", ".", "c", "o", "m">>

\* "||ads.com^$domain=foo.com"
P_domain_rule_opt ==
    <<"|", "|", "a", "d", "s", ".", "c", "o", "m", "^", "$", "d", "o", "m", "a", "i", "n", "=", "f", "o", "o", ".", "c", "o", "m">>

\* "|http://example.com/|"
P_exact ==
    <<"|", "h", "t", "t", "p", ":", "/", "/", "e", "x", "a", "m", "p", "l", "e", ".", "c", "o", "m", "/", "|">>

\* "/banner/*/img"
P_banner ==
    <<"/", "b", "a", "n", "n", "e", "r", "/", "*", "/", "i", "m", "g">>

\* "ads("
P_paren ==
    <<"a", "d", "s", "(">>

\* "example.com"
D_example_com ==
    <<"e", "x", "a", "m", "p", "l", "e", ".", "c", "o", "m">>

\* "ads.example.com"
D_ads_example_com ==
    <<"a", "d", "s", ".", "e", "x", "a", "m", "p", "l", "e", ".", "c", "o", "m">>

\* "example.org"
D_example_org ==
    <<"e", "x", "a", "m", "p", "l", "e", ".", "o", "r", "g">>

\* "foo.com"
D_foo_com ==
    <<"f", "o", "o", ".", "c", "o", "m">>

\* "baz.com"
D_baz_com ==
    <<"b", "a", "z", ".", "c", "o", "m">>

\* "ads.com"
D_ads_com ==
    <<"a", "d", "s", ".", "c", "o", "m">>

\* "ads.foo.com"
D_ads_foo_com ==
    <<"a", "d", "s", ".", "f", "o", "o", ".", "c", "o", "m">>

\* "ads.js"
U_ads_js ==
    <<"a", "d", "s", ".", "j", "s">>

\* "http://example.com/"
U_exact ==
    <<"h", "t", "t", "p", ":", "/", "/", "e", "x", "a", "m", "p", "l", "e", ".", "c", "o", "m", "/">>

\* "https://x.com/banner/foo/img"
U_banner ==
    <<"h", "t", "t", "p", "s", ":", "/", "/", "x", ".", "c", "o", "m", "/", "b", "a", "n", "n", "e", "r", "/", "f", "o", "o", "/", "i", "m", "g">>

\* "x.com"
D_x_com ==
    <<"x", ".", "c", "o", "m">>

\* the longest generated raw pattern and candidate
MaxRawLen == 3

MaxCandLen == 2

RawAlphabet == {"a", ".", "|", "@", "$", "=", ",", "^", " ", "*", "?", "("}

CandAlphabet == {"a", "."}

StringsUpTo(alphabet, n) ==
    UNION {[1..k -> alphabet] : k \in 0..n}

CuratedPatterns ==
    {P_domain_caret,
     P_domain_bare,
     P_exception_domain,
     P_ads,
     P_exception_ads,
     P_two_equals,
     P_two_dollars,
     P_flag_domain,
     P_domain_opt,
     P_domain_rule_opt,
     P_exact,
     P_banner,
     P_paren}

RawPatterns == CuratedPatterns \cup StringsUpTo(RawAlphabet, MaxRawLen)

Pair(url, domain) == [url |-> url, domain |-> domain]

\* IsBlocked-style calls use the domain as the url too
Candidates ==
    {Pair(d, d) : d \in {D_example_com, D_ads_example_com, D_example_org, D_foo_com, D_baz_com, D_ads_com, D_ads_foo_com, D_x_com}
                         \cup StringsUpTo(CandAlphabet, MaxCandLen)}
    \cup {Pair(U_ads_js, D_foo_com), Pair(U_ads_js, D_baz_com),
          Pair(U_ads_js, D_ads_foo_com),
          Pair(U_exact, D_example_com), Pair(U_banner, D_x_com)}

NoRule == [raised |-> "unbuilt", raw_pattern |-> <<>>, pattern_type |-> WILDCARD,
           processed_pattern |-> <<>>, options |-> NoOptions]

NoCand == Pair(<<>>, <<>>)


\* 'ads\n@@ads'
T_ads_exception ==
    <<"a", "d", "s", "\n", "@", "@", "a", "d", "s">>

\* '\n!comment\n[Adblock]\nads$a=b=c\n ||example.com^ '
T_mixed ==
    <<"\n", "!", "c", "o", "m", "m", "e", "n", "t", "\n", "[", "A", "d", "b", "l", "o", "c", "k", "]", "\n", "a", "d", "s", "$", "a", "=", "b", "=", "c", "\n", " ", "|", "|", "e", "x", "a", "m", "p", "l", "e", ".", "c", "o", "m", "^", " ">>

\* '!comment'
T_only_comment ==
    <<"!", "c", "o", "m", "m", "e", "n", "t">>

---------------------------------------------------------------------------
(* db_manager.py: the easylist table *)

Row(entry, category) == [entry |-> entry, category |-> category]

\* SQLite "X GLOB pattern": "*" any sequence, "?" any one character, every
\* other modelled character stands for itself; the whole of s must be covered
RECURSIVE GlobMatch(_, _, _, _)
GlobMatch(pat, i, s, j) ==
    IF i > Len(pat) THEN j = Len(s) + 1
    ELSE IF pat[i] = "*"
         THEN \E k \in j..(Len(s) + 1) : GlobMatch(pat, i + 1, s, k)
    ELSE IF pat[i] = "?"
         THEN j <= Len(s) /\ GlobMatch(pat, i + 1, s, j + 1)
    ELSE j <= Len(s) /\ s[j] = pat[i] /\ GlobMatch(pat, i + 1, s, j + 1)

\* the SELECT without its WHERE clause: any stored row blocks
is_easylist_blocked_any_row(table, domain) ==
    \E row \in table : TRUE

\* SELECT 1 FROM easylist WHERE ? GLOB '*' || entry || '*'
is_easylist_blocked(table, domain) ==
    \E row \in table :
        GlobMatch(<<"*">> \o row.entry \o <<"*">>, 1, domain, 1)

\* INSERT OR REPLACE of entries[i..], in order, into a table keyed by entry
RECURSIVE InsertOrReplace(_, _, _)
InsertOrReplace(table, entries, i) ==
    IF i > Len(entries) THEN table
    ELSE InsertOrReplace(
             {row \in table : row.entry # entries[i][1]}
                 \cup {Row(entries[i][1], entries[i][2])},
             entries, i + 1)

\* store_easylist_entries: "for entry, category in entries" raises ValueError
\* on a tuple that is not a pair, before anything is executed
store_easylist_entries(table, entries) ==
    IF \E i \in 1..Len(entries) : Len(entries[i]) # 2
    THEN [raised |-> "ValueError", table |-> table]
    ELSE [raised |-> "none", table |-> InsertOrReplace(table, entries, 1)]

\* a DELETE that removes one row only, Exception rows first
clear_easylist_one_row(table) ==
    IF table = {} THEN {}
    ELSE table \ {CHOOSE row \in table :
                      \A o \in table :
                          row.category = EXCEPTION \/ o.category # EXCEPTION}

\* clear_easylist: DELETE FROM easylist
clear_easylist(table) == {}

---------------------------------------------------------------------------
(* utils.py, db_manager.py (blocked_domains, feature_states), handlers.py  *)
(* and the GUI-client loop of server.py                                    *)

CODE_AD_BLOCK == "50"
CODE_ADULT_BLOCK == "51"
CODE_ADD_DOMAIN == "52"
CODE_REMOVE_DOMAIN == "53"
CODE_DOMAIN_LIST_UPDATE == "54"
CODE_INIT_SETTINGS == "55"
CODE_SUCCESS == "100"
CODE_ERROR == "101"

\* "Invalid JSON format."
STR_INVALID_JSON_MSG ==
    <<"I", "n", "v", "a", "l", "i", "d", " ", "J", "S", "O", "N", " ", "f",
      "o", "r", "m", "a", "t", ".">>

\* "www."
WWW_PREFIX == <<"w", "w", "w", ".">>

\* "www.example.com"
D_www_example_com == WWW_PREFIX \o D_example_com

STR_AD_BLOCK == "ad_block"

STR_ADULT_BLOCK == "adult_block"

STR_TOGGLE_ON == <<"o", "n">>

STR_TOGGLE_OFF == <<"o", "f", "f">>

\* a value json.loads returns for a key: a str, an int, or the key is not
\* there
JStr(v) == [t |-> "str", v |-> v]

JInt == [t |-> "int", v |-> <<>>]

Absent == [t |-> "absent", v |-> <<>>]

\* the same for the value of "code", its str being one of the Codes
CStr(c) == [t |-> "str", v |-> c]

\* ... or it is an int, a list, or the key is not there ("absent")
CNoStr(t) == [t |-> t, v |-> ""]

\* str(e) of the exceptions the handlers and the server loop catch, named
\* by the call that raises
str_e(e) ==
    CASE e = "int.startswith" ->
             <<"'", "i", "n", "t", "'", " ", "o", "b", "j", "e", "c", "t", " ", "h",
             "a", "s", " ", "n", "o", " ", "a", "t", "t", "r", "i", "b", "u", "t",
             "e", " ", "'", "s", "t", "a", "r", "t", "s", "w", "i", "t", "h", "'">>
      [] e = "DatabaseManager.update_setting" ->
             <<"'", "D", "a", "t", "a", "b", "a", "s", "e", "M", "a", "n", "a", "g",
             "e", "r", "'", " ", "o", "b", "j", "e", "c", "t", " ", "h", "a", "s",
             " ", "n", "o", " ", "a", "t", "t", "r", "i", "b", "u", "t", "e", " ",
             "'", "u", "p", "d", "a", "t", "e", "_", "s", "e", "t", "t", "i", "n",
             "g", "'">>
      [] e = "DatabaseManager.get_setting" ->
             <<"'", "D", "a", "t", "a", "b", "a", "s", "e", "M", "a", "n", "a", "g",
             "e", "r", "'", " ", "o", "b", "j", "e", "c", "t", " ", "h", "a", "s",
             " ", "n", "o", " ", "a", "t", "t", "r", "i", "b", "u", "t", "e", " ",
             "'", "g", "e", "t", "_", "s", "e", "t", "t", "i", "n", "g", "'">>
      [] e = "list.get" ->
             <<"'", "l", "i", "s", "t", "'", " ", "o", "b", "j", "e", "c", "t", " ",
             "h", "a", "s", " ", "n", "o", " ", "a", "t", "t", "r", "i", "b", "u",
             "t", "e", " ", "'", "g", "e", "t", "'">>
      [] e = "handlers.get(list)" ->
             <<"u", "n", "h", "a", "s", "h", "a", "b", "l", "e", " ", "t", "y", "p",
             "e", ":", " ", "'", "l", "i", "s", "t", "'">>
      [] e = "bytes.decode" ->
             <<"'", "u", "t", "f", "-", "8", "'", " ", "c", "o", "d", "e", "c", " ",
             "c", "a", "n", "'", "t", " ", "d", "e", "c", "o", "d", "e", " ", "b",
             "y", "t", "e", " ", "0", "x", "f", "f", " ", "i", "n", " ", "p", "o",
             "s", "i", "t", "i", "o", "n", " ", "0", ":", " ", "i", "n", "v", "a",
             "l", "i", "d", " ", "s", "t", "a", "r", "t", " ", "b", "y", "t", "e">>

\* 'Invalid JSON format', the message server.py sends itself
MSG_invalid_json_format ==
    <<"I", "n", "v", "a", "l", "i", "d", " ", "J", "S", "O", "N", " ", "f",
      "o", "r", "m", "a", "t">>

\* a row of blocked_domains: domain TEXT UNIQUE, active BOOLEAN
DomainRow(domain, active) == [domain |-> domain, active |-> active]

\* SELECT 1 FROM blocked_domains WHERE domain = ? AND active = TRUE
is_domain_blocked_never(table, domain) == FALSE

is_domain_blocked(table, domain) ==
    \E row \in table : row.domain = domain /\ row.active

\* INSERT OR IGNORE: a domain that has a row keeps it as it is
add_blocked_domain_ignoring_existing(table, domain) ==
    IF \E row \in table : row.domain = domain
    THEN table
    ELSE table \cup {DomainRow(domain, TRUE)}

\* INSERT ...; on IntegrityError (the domain has a row) UPDATE active = TRUE
add_blocked_domain(table, domain) ==
    {row \in table : row.domain # domain} \cup {DomainRow(domain, TRUE)}

\* UPDATE blocked_domains SET active = FALSE WHERE domain = ?; the value is
\* cursor.rowcount > 0: the number of rows the WHERE clause selected
remove_blocked_domain(table, domain) ==
    [table |-> {IF row.domain = domain THEN DomainRow(domain, FALSE) ELSE row :
                   row \in table},
     value |-> \E row \in table : row.domain = domain]

\* SELECT domain, ... WHERE active = TRUE: the list of the dicts of the
\* selected rows, given by how many times each domain is in it
get_blocked_domains(table) ==
    [d \in {row.domain : row \in {r \in table : r.active}} |->
         Cardinality({row \in table : row.active /\ row.domain = d})]

\* the methods DatabaseManager defines; handlers.py also calls get_setting
\* and update_setting, which it does not define (AttributeError)
DatabaseManagerMethods ==
    {"get_feature_state", "update_feature_state", "add_blocked_domain",
     "remove_blocked_domain", "get_blocked_domains", "store_easylist_entries",
     "is_domain_blocked", "is_easylist_blocked", "register_client",
     "unregister_client", "clear_easylist", "close"}

\* a response dict: keys are the keys it has, the other fields their values
Response(code, content, operation) ==
    [keys |-> {"code", "content", "operation"}, code |-> code,
     content |-> content, operation |-> operation, status |-> ""]

\* the reply with CODE_SUCCESS in place of CODE_ERROR
invalid_json_response_as_success ==
    [keys |-> {"code", "content"}, code |-> CODE_SUCCESS,
     content |-> STR_INVALID_JSON_MSG, operation |-> "", status |-> ""]

invalid_json_response ==
    [keys |-> {"code", "content"}, code |-> CODE_ERROR,
     content |-> STR_INVALID_JSON_MSG, operation |-> "", status |-> ""]

\* {'status': 'error', 'message': ...}, the message kept in content
StatusError(message) ==
    [keys |-> {"status", "message"}, code |-> "", content |-> message,
     operation |-> "", status |-> "error"]

Handled(db, reply) == [db |-> db, response |-> reply]

\* DNSManager.update_dns_settings: the DNS configuration that the script it
\* runs sets
update_dns_settings(ad_block, adult_block) ==
    IF ad_block = JStr(STR_TOGGLE_ON) /\ adult_block = JStr(STR_TOGGLE_ON)
    THEN "adguard_family"
    ELSE IF ad_block = JStr(STR_TOGGLE_ON) THEN "adguard"
    ELSE IF adult_block = JStr(STR_TOGGLE_ON) THEN "cloudflare"
    ELSE "reset"

\* a handler that stores the new state and then fails
ToggleHandler_storing_before_failing(db, request_data, feature, operation) ==
    IF request_data.content # Absent
    THEN Handled([db EXCEPT !.feature_states[feature] = request_data.content],
                 Response(CODE_ERROR, str_e("DatabaseManager.get_setting"),
                          operation))
    ELSE Handled(db, invalid_json_response)

\* AdBlockHandler.handle_request and AdultContentBlockHandler.handle_request:
\* with a content the first call is db_manager.update_setting, the second
\* db_manager.get_setting for the other feature, the third
\* dns_manager.update_dns_settings(ad state, adult state)
ToggleHandler_handle_request(db, request_data, feature, operation) ==
    IF request_data.content # Absent
    THEN IF "update_setting" \in DatabaseManagerMethods
         THEN LET state == request_data.content
                  stored == [db EXCEPT !.feature_states[feature] = state]
              IN  IF "get_setting" \in DatabaseManagerMethods
                  THEN Handled(
                           [stored EXCEPT !.dns =
                                update_dns_settings(
                                    stored.feature_states[STR_AD_BLOCK],
                                    stored.feature_states[STR_ADULT_BLOCK])],
                           Response(CODE_SUCCESS, state.v, operation))
                  ELSE Handled(stored,
                               Response(CODE_ERROR,
                                        str_e("DatabaseManager.get_setting"),
                                        operation))
         ELSE Handled(db, Response(CODE_ERROR, str_e("DatabaseManager.update_setting"),
                                   operation))
    ELSE Handled(db, invalid_json_response)

AdBlockHandler_handle_request(db, request_data) ==
    ToggleHandler_handle_request(db, request_data, STR_AD_BLOCK,
                                 CODE_AD_BLOCK)

AdultContentBlockHandler_handle_request(db, request_data) ==
    ToggleHandler_handle_request(db, request_data, STR_ADULT_BLOCK,
                                 CODE_ADULT_BLOCK)

\* "www." in front of every name
WithWww_always(domain) == WWW_PREFIX \o domain

\* if not domain.startswith("www."): domain = f"www.{domain}"
WithWww(domain) ==
    IF ~StartsWith(domain, WWW_PREFIX) THEN WWW_PREFIX \o domain ELSE domain

\* f"Domain {domain} is already blocked"
AlreadyBlockedMsg(domain) ==
    <<"D", "o", "m", "a", "i", "n", " ">> \o domain
        \o
    <<" ", "i", "s", " ", "a", "l", "r", "e", "a", "d", "y", " ", "b", "l",
      "o", "c", "k", "e", "d">>

DomainBlockHandler_handle_request(db, request_data) ==
    IF request_data.content = Absent
    THEN Handled(db, invalid_json_response)
    ELSE LET operation_code == request_data.code.v
         IN  IF request_data.content.t # "str"
             THEN Handled(db, Response(CODE_ERROR, str_e("int.startswith"),
                                       operation_code))
             ELSE LET domain == WithWww(request_data.content.v)
                      table == db.blocked_domains
                  IN  CASE operation_code = CODE_ADD_DOMAIN ->
                               IF is_domain_blocked(table, domain)
                               THEN Handled(db,
                                        Response(CODE_ERROR,
                                                 AlreadyBlockedMsg(domain),
                                                 CODE_ADD_DOMAIN))
                               ELSE Handled(
                                        [db EXCEPT !.blocked_domains =
                                             add_blocked_domain(table, domain)],
                                        Response(CODE_SUCCESS, domain,
                                                 CODE_ADD_DOMAIN))
                        [] operation_code = CODE_REMOVE_DOMAIN ->
                               LET removed ==
                                       remove_blocked_domain(table, domain)
                               IN  Handled(
                                       [db EXCEPT !.blocked_domains =
                                            removed.table],
                                       Response(IF removed.value
                                                THEN CODE_SUCCESS
                                                ELSE CODE_ERROR,
                                                domain, CODE_REMOVE_DOMAIN))
                        [] OTHER -> Handled(db, invalid_json_response)

\* SettingsHandler.handle_request: get_blocked_domains, then get_setting
SettingsHandler_handle_request(db, request_data) ==
    IF "get_setting" \in DatabaseManagerMethods
    THEN Handled(db, [keys |-> {"code", "domains", "settings", "operation"},
                      code |-> CODE_SUCCESS, content |-> <<>>,
                      operation |-> CODE_INIT_SETTINGS, status |-> ""])
    ELSE Handled(db, Response(CODE_ERROR, str_e("DatabaseManager.get_setting"),
                              CODE_INIT_SETTINGS))

\* what json.loads made of the bytes: a dict with its "code" and "content"
\* values, or a value that is no dict
Dict(code, content) == [kind |-> "dict", code |-> code, content |-> content]

NoDict == [kind |-> "list", code |-> CNoStr("absent"), content |-> Absent]

\* RequestFactory.handle_request
RequestFactory_handle_request(db, request_data) ==
    IF request_data.kind # "dict"
    THEN Handled(db, [keys |-> {"code", "content"}, code |-> CODE_ERROR,
                      content |-> str_e("list.get"), operation |-> "",
                      status |-> ""])
    ELSE IF request_data.code.t = "list"
    THEN Handled(db, [keys |-> {"code", "content"}, code |-> CODE_ERROR,
                      content |-> str_e("handlers.get(list)"), operation |-> "",
                      status |-> ""])
    ELSE IF request_data.code.t # "str"
    THEN Handled(db, invalid_json_response)
    ELSE CASE request_data.code.v = CODE_AD_BLOCK ->
                  AdBlockHandler_handle_request(db, request_data)
           [] request_data.code.v = CODE_ADULT_BLOCK ->
                  AdultContentBlockHandler_handle_request(db, request_data)
           [] request_data.code.v \in {CODE_ADD_DOMAIN, CODE_REMOVE_DOMAIN} ->
                  DomainBlockHandler_handle_request(db, request_data)
           [] request_data.code.v = CODE_INIT_SETTINGS ->
                  SettingsHandler_handle_request(db, request_data)
           [] OTHER -> Handled(db, invalid_json_response)

\* the requests of the GUI connection: every "code" with every "content"
ClientRequests ==
    LET codes == {CStr(c) : c \in {CODE_AD_BLOCK, CODE_ADULT_BLOCK,
                                   CODE_ADD_DOMAIN, CODE_REMOVE_DOMAIN,
                                   CODE_DOMAIN_LIST_UPDATE,
                                   CODE_INIT_SETTINGS, "invalid_code"}}
                     \cup {CNoStr("int"), CNoStr("list"), CNoStr("absent")}
        contents == {JStr(d) : d \in {D_example_com, D_www_example_com,
                                      <<"w", "w", "w">>, <<>>,
                                      STR_TOGGLE_ON, STR_TOGGLE_OFF}}
                        \cup {JInt, Absent}
    IN  {Dict(c, x) : c \in codes, x \in contents} \cup {NoDict}

\* the bytes conn.recv returns: JSON text, given by what json.loads makes
\* of it
Json(request_data) == [bytes |-> "json", request_data |-> request_data]

\* "text": text that is no JSON; "binary": bytes that are no UTF-8; "none":
\* nothing received yet
NoJson(bytes) == [bytes |-> bytes, request_data |-> NoDict]

\* no kernel query read since the last GUI request
NoKernel ==
    [query |-> [domain |-> <<>>, is_ad |-> FALSE, adult |-> FALSE],
     written |-> <<>>, closed |-> FALSE]

ClientData ==
    {Json(r) : r \in ClientRequests} \cup {NoJson("text"), NoJson("binary")}

ServerIdle ==
    /\ blocked_domains = {}
    /\ feature_states =
           [f \in {STR_AD_BLOCK, STR_ADULT_BLOCK} |-> JStr(STR_TOGGLE_OFF)]
    /\ data = NoJson("none")
    /\ sent = <<>>
    /\ factory_calls = <<>>
    /\ dns = "none"
    /\ kernel = NoKernel
    /\ last_add = {}
    /\ Server_running = TRUE
    /\ client_thread = "loop"
    /\ conns = 0
    /\ closes = [listening |-> 0, conn |-> 0]

\* one turn of the inner loop of handle_client_thread: conn.recv, json.loads,
\* request_factory.handle_request, conn.send
HandleClientData(d) ==
    /\ data' = d
    /\ IF d.bytes = "binary"
       THEN /\ sent' = <<StatusError(str_e("bytes.decode"))>>
            /\ factory_calls' = <<>>
            /\ UNCHANGED <<blocked_domains, feature_states, dns>>
       ELSE IF d.bytes = "text"
       THEN /\ sent' = <<StatusError(MSG_invalid_json_format)>>
            /\ factory_calls' = <<>>
            /\ UNCHANGED <<blocked_domains, feature_states, dns>>
       ELSE LET h == RequestFactory_handle_request(
                         [blocked_domains |-> blocked_domains,
                          feature_states |-> feature_states,
                          dns |-> dns],
                         d.request_data)
            IN  /\ factory_calls' = <<d.request_data>>
                /\ blocked_domains' = h.db.blocked_domains
                /\ feature_states' = h.db.feature_states
                /\ dns' = h.db.dns
                /\ sent' = <<h.response>>
    /\ kernel' = NoKernel
    /\ UNCHANGED <<rvars, evars, cvars, last_add, tvars>>

\* the line reader.readline returns on the kernel connection, given by what
\* json.loads makes of it: a dict with "domain", "is_ad" and "categories"
KernelQueries ==
    [domain : {<<>>, <<" ">>, D_example_com, D_www_example_com},
     is_ad : BOOLEAN, adult : BOOLEAN]

\* one turn of the loop of handle_kernel_requests for the line read: what is
\* written to the connection, and whether the turn leaves it closed. The
\* first database call is db_manager.get_setting('ad_block'); an exception
\* is logged by the except clause and the finally clause closes the writer.
handle_kernel_request(db, request_data) ==
    LET domain == Strip(request_data.domain)
        ad_block_enabled ==
            db.feature_states[STR_AD_BLOCK] = JStr(STR_TOGGLE_ON)
        adult_block_enabled ==
            db.feature_states[STR_ADULT_BLOCK] = JStr(STR_TOGGLE_ON)
        block_reason ==
            IF is_domain_blocked(db.blocked_domains, domain)
            THEN "custom_blocklist"
            ELSE IF ad_block_enabled /\ request_data.is_ad THEN "ads"
            ELSE IF adult_block_enabled /\ request_data.adult
            THEN "adult_content"
            ELSE "allowed"
    IN  IF domain = <<>>
        THEN [query |-> request_data, written |-> <<>>, closed |-> FALSE]
        ELSE IF "get_setting" \notin DatabaseManagerMethods
        THEN [query |-> request_data, written |-> <<>>, closed |-> TRUE]
        ELSE [query |-> request_data,
              written |-> <<[block |-> block_reason # "allowed",
                             reason |-> block_reason,
                             domain |-> domain]>>,
              closed |-> FALSE]

\* the kernel module sends a query (on a new connection when the last one
\* was closed) and the server handles it
HandleKernelData(q) ==
    /\ kernel' = handle_kernel_request(
                     [blocked_domains |-> blocked_domains,
                      feature_states |-> feature_states, dns |-> dns], q)
    /\ UNCHANGED <<blocked_domains, feature_states, data, sent, factory_calls,
                   dns, last_add, tvars>>
    /\ UNCHANGED <<rvars, evars, cvars>>

\* db_manager.add_blocked_domain(domain), called on the manager itself
DbAdd(domain) ==
    /\ blocked_domains' = add_blocked_domain(blocked_domains, domain)
    /\ last_add' = last_add \cup {domain}
    /\ UNCHANGED <<feature_states, data, sent, factory_calls, dns, kernel,
                   tvars>>
    /\ UNCHANGED <<rvars, evars, cvars>>

\* db_manager.remove_blocked_domain(domain), called on the manager itself
DbRemove(domain) ==
    /\ blocked_domains' =
           remove_blocked_domain(blocked_domains, domain).table
    /\ last_add' = last_add \ {domain}
    /\ UNCHANGED <<feature_states, data, sent, factory_calls, dns, kernel,
                   tvars>>
    /\ UNCHANGED <<rvars, evars, cvars>>

\* the accepted connections handle_client_thread is followed over
MaxConns == 2

ServerOnly ==
    UNCHANGED <<blocked_domains, feature_states, data, sent, factory_calls,
                dns, kernel, last_add, rvars, evars, cvars>>

\* handle_client_thread, "while self.running": the loop goes on into accept,
\* or ends and the outer finally clause closes the listening socket
LoopTest ==
    /\ client_thread = "loop"
    /\ IF Server_running
       THEN client_thread' = "accept" /\ UNCHANGED closes
       ELSE /\ client_thread' = "done"
            /\ closes' = [closes EXCEPT !.listening = @ + 1]
    /\ UNCHANGED <<Server_running, conns>>
    /\ ServerOnly

\* client_socket.accept() returns a connection; the domain list is sent and
\* the inner loop entered
AcceptReturns ==
    /\ client_thread = "accept"
    /\ conns < MaxConns
    /\ conns' = conns + 1
    /\ client_thread' = "recv"
    /\ UNCHANGED <<Server_running, closes>>
    /\ ServerOnly

\* client_socket.accept() raises socket.timeout after a second without a
\* client: break when not running (the finally clause closes the listening
\* socket), continue otherwise
AcceptTimeout ==
    /\ client_thread = "accept"
    /\ IF Server_running
       THEN client_thread' = "loop" /\ UNCHANGED closes
       ELSE /\ client_thread' = "done"
            /\ closes' = [closes EXCEPT !.listening = @ + 1]
    /\ UNCHANGED <<Server_running, conns>>
    /\ ServerOnly

\* conn.recv returns what the client sent within the second: the request is
\* answered and the inner "while True" goes on, without a look at
\* self.running
RecvData(d) ==
    /\ client_thread = "recv"
    /\ HandleClientData(d)

\* conn.recv returns b'' (the client has disconnected): break, and the
\* finally clause closes the connection
RecvEmpty ==
    /\ client_thread = "recv"
    /\ client_thread' = "loop"
    /\ closes' = [closes EXCEPT !.conn = @ + 1]
    /\ UNCHANGED <<Server_running, conns>>
    /\ ServerOnly

\* conn.recv raises socket.timeout after a second without data: break when
\* not running (the finally clause closes the connection), continue
\* otherwise
RecvTimeout ==
    /\ client_thread = "recv"
    /\ IF Server_running
       THEN UNCHANGED <<client_thread, closes>>
       ELSE /\ client_thread' = "loop"
            /\ closes' = [closes EXCEPT !.conn = @ + 1]
    /\ UNCHANGED <<Server_running, conns>>
    /\ ServerOnly

\* the steps of the thread that runs handle_client_thread
handle_client_thread ==
    \/ LoopTest
    \/ AcceptReturns
    \/ AcceptTimeout
    \/ \E d \in {NoJson("text"),
                  Json(Dict(CStr(CODE_ADD_DOMAIN), JStr(D_example_com))),
                  Json(Dict(CStr(CODE_REMOVE_DOMAIN), JStr(D_example_com)))} :
           RecvData(d)
    \/ RecvEmpty
    \/ RecvTimeout

\* start_server, finally: self.running = False
StopServer ==
    /\ Server_running
    /\ Server_running' = FALSE
    /\ UNCHANGED <<client_thread, conns, closes>>
    /\ ServerOnly

\* the GUI requests that edit the policy the kernel queries are decided by
PolicyEdits ==
    {Json(Dict(CStr(c), JStr(x))) :
         c \in {CODE_AD_BLOCK, CODE_ADULT_BLOCK, CODE_ADD_DOMAIN,
                CODE_REMOVE_DOMAIN},
         x \in {D_example_com, D_www_example_com, STR_TOGGLE_ON,
                STR_TOGGLE_OFF}}


---------------------------------------------------------------------------
(* client: src/Application.py, src/Communicator.py, src/View.py *)

\* a JSON text, given by what json.loads makes of it: a dict with its
\* "operation" and "code" values ("" for a key that is not there), a str,
\* or no JSON at all
Message(kind, operation, code) ==
    [kind |-> kind, operation |-> operation, code |-> code]

NoMessage == Message("none", "", "")

\* what the server writes to the GUI connection: the handlers' responses,
\* the domain list sent on accept and the {'status': 'error'} replies (no
\* "operation"), a JSON string, a line that is no JSON
ServerMessages ==
    {Message("dict", op, c) :
         op \in {CODE_AD_BLOCK, CODE_ADULT_BLOCK, CODE_ADD_DOMAIN,
                 CODE_REMOVE_DOMAIN, CODE_DOMAIN_LIST_UPDATE,
                 CODE_INIT_SETTINGS},
         c \in {CODE_SUCCESS, CODE_ERROR}}
        \cup {Message("dict", "", CODE_ERROR), Message("dict", "", ""),
              Message("str", "", ""), Message("invalid", "", "")}

\* the json.dumps({STR_CODE: ..., STR_CONTENT: ...}) texts of View.py
GuiRequests ==
    {Message("dict", "", c) :
         c \in {CODE_ADD_DOMAIN, CODE_REMOVE_DOMAIN, CODE_AD_BLOCK,
                CODE_ADULT_BLOCK}}

Outcome(raised, wrote, view) ==
    [raised |-> raised, wrote |-> wrote, view |-> view]

\* Communicator.send_message: _validate_connection, then
\* self._socket.send(message.encode('utf-8'))
send_message(sock, message) ==
    IF sock = "None" THEN Outcome("RuntimeError", <<>>, "none")
    ELSE IF message.kind # "str"
    THEN Outcome("AttributeError", <<>>, "none")
    ELSE Outcome("none", <<message>>, "none")

\* the match statement of _handle_request, the names STR_OPERATION and
\* CODE_INIT_SETTINGS having the values of the server's utils.py
ViewHandler(operation) ==
    CASE operation = CODE_INIT_SETTINGS -> "update_initial_settings"
      [] operation = CODE_AD_BLOCK -> "ad_block_response"
      [] operation = CODE_ADULT_BLOCK -> "adult_block_response"
      [] operation = CODE_ADD_DOMAIN -> "add_domain_response"
      [] operation = CODE_REMOVE_DOMAIN -> "remove_domain_response"
      [] operation = CODE_DOMAIN_LIST_UPDATE -> "update_domain_list_response"
      [] OTHER -> "none"

\* Application._handle_request(request, to_server)
_handle_request(sock, request, to_server) ==
    IF request.kind = "invalid"
    THEN Outcome("JSONDecodeError", <<>>, "none")
    ELSE IF to_server THEN send_message(sock, request)
    ELSE IF request.kind # "dict" THEN Outcome("TypeError", <<>>, "none")
    ELSE IF request.operation = "" THEN Outcome("KeyError", <<>>, "none")
    ELSE Outcome("none", <<>>, ViewHandler(request.operation))

Delivery(origin, message) == [origin |-> origin, message |-> message]

\* the exception a Communicator call ended with ("none": it returned)
Fault(call, exc) == [call |-> call, exc |-> exc]

ClientIdle ==
    /\ _socket = "None"
    /\ receiver = "unstarted"
    /\ inbound = <<>>
    /\ delivered = Delivery("none", NoMessage)
    /\ view_call = "none"
    /\ outbound = <<>>
    /\ fault = Fault("none", "none")

\* Application._start_communication: connect, then the receive thread
Connect ==
    /\ _socket = "None"
    /\ receiver = "unstarted"
    /\ _socket' = "socket"
    /\ receiver' = "running"
    /\ UNCHANGED <<inbound, delivered, view_call, outbound, fault>>
    /\ UNCHANGED <<rvars, evars, svars>>

\* a message of the server reaches the client's socket
ServerSends(m) ==
    /\ _socket = "socket"
    /\ inbound = <<>>
    /\ inbound' = <<m>>
    /\ UNCHANGED <<_socket, receiver, delivered, view_call, outbound, fault>>
    /\ UNCHANGED <<rvars, evars, svars>>

\* one turn of the loop of Communicator.receive_message: recv, decode,
\* self._message_callback(message), which leaves to_server at its default
\* True; an exception ends the thread
ReceiveMessage ==
    /\ receiver = "running"
    /\ _socket = "socket"
    /\ inbound # <<>>
    /\ LET r == _handle_request(_socket, Head(inbound), TRUE)
       IN  /\ delivered' = Delivery("server", Head(inbound))
           /\ view_call' = r.view
           /\ outbound' = r.wrote
           /\ receiver' = IF r.raised = "none" THEN "running" ELSE "raised"
           /\ fault' = Fault("receive_message", r.raised)
    /\ inbound' = <<>>
    /\ UNCHANGED _socket
    /\ UNCHANGED <<rvars, evars, svars>>

\* a request method of the Viewer: self._message_callback(json.dumps(...)),
\* to_server at its default True
GuiRequest(m) ==
    /\ receiver # "unstarted"
    /\ LET r == _handle_request(_socket, m, TRUE)
       IN  /\ delivered' = Delivery("gui", m)
           /\ view_call' = r.view
           /\ outbound' = r.wrote
           /\ fault' = Fault("send_message", r.raised)
    /\ UNCHANGED <<_socket, receiver, inbound>>
    /\ UNCHANGED <<rvars, evars, svars>>

\* Communicator.close (Application._cleanup calls it while the receive
\* thread may be running): the socket is closed and _socket set to None;
\* without a socket nothing happens. What the socket held unread is lost.
Close ==
    /\ _socket' = "None"
    /\ inbound' = <<>>
    /\ fault' = Fault("none", "none")
    /\ delivered' = Delivery("none", NoMessage)
    /\ view_call' = "none"
    /\ outbound' = <<>>
    /\ UNCHANGED receiver
    /\ UNCHANGED <<rvars, evars, svars>>

\* Communicator.send_message(message) or Communicator.receive_message()
\* called while _socket is None: _validate_connection raises
CallWithoutSocket(call) ==
    /\ _socket = "None"
    /\ receiver # "running"
    /\ fault' = Fault(call, "RuntimeError")
    /\ delivered' = Delivery("none", NoMessage)
    /\ view_call' = "none"
    /\ outbound' = <<>>
    /\ UNCHANGED <<_socket, receiver, inbound>>
    /\ UNCHANGED <<rvars, evars, svars>>

\* the receive loop, started while the socket was there, after close: its
\* next self._socket.recv(...) finds None in self._socket (AttributeError),
\* and a recv that was already waiting on the socket object can end with
\* OSError on the closed descriptor. receive_message validates the
\* connection only before the loop.
ReceiveAfterClose(exc) ==
    /\ receiver = "running"
    /\ _socket = "None"
    /\ receiver' = "raised"
    /\ fault' = Fault("receive_message", exc)
    /\ UNCHANGED <<_socket, inbound, delivered, view_call, outbound>>
    /\ UNCHANGED <<rvars, evars, svars>>

NextClient ==
    \/ Connect
    \/ \E m \in ServerMessages : ServerSends(m)
    \/ ReceiveMessage
    \/ \E m \in GuiRequests : GuiRequest(m)
    \/ Close
    \/ \E call \in {"send_message", "receive_message"} :
           CallWithoutSocket(call)
    \/ \E exc \in {"AttributeError", "OSError"} : ReceiveAfterClose(exc)

---------------------------------------------------------------------------
(* easylist_manager.py *)

\* the for loop of _perform_update over lines[i..]: blank, "!" and "[" lines
\* are passed over, a line whose FilterRule(...) raises is skipped, every
\* other line appends (raw_pattern, pattern_type.value, processed_pattern,
\* json.dumps(options)); the dumped options are carried as the mapping
RECURSIVE RulesLoop(_, _, _)
RulesLoop(lines, i, acc) ==
    IF i > Len(lines) THEN acc
    ELSE LET line == Strip(lines[i])
         IN  IF /\ line # <<>>
                /\ ~StartsWith(line, <<"!">>)
                /\ ~StartsWith(line, <<"[">>)
             THEN LET r == FilterRule(line)
                  IN  IF r.raised = "none"
                      THEN RulesLoop(lines, i + 1,
                               Append(acc, <<r.raw_pattern, r.pattern_type,
                                             r.processed_pattern, r.options>>))
                      ELSE RulesLoop(lines, i + 1, acc)
             ELSE RulesLoop(lines, i + 1, acc)

\* the for loop as if a line whose FilterRule(...) raises ended it: only the
\* lines before the first such line are read
ParseRules_aborting(text) ==
    LET lines == Split(text, "\n")
        bad == {i \in 1..Len(lines) :
                   LET line == Strip(lines[i])
                   IN  /\ line # <<>>
                       /\ ~StartsWith(line, <<"!">>)
                       /\ ~StartsWith(line, <<"[">>)
                       /\ FilterRule(line).raised # "none"}
        stop == IF bad = {} THEN Len(lines)
                ELSE (CHOOSE i \in bad : \A j \in bad : i <= j) - 1
    IN  RulesLoop(SubSeq(lines, 1, stop), 1, <<>>)

\* response.text.split('\n') and the loop over the lines
ParseRules(text) == RulesLoop(Split(text, "\n"), 1, <<>>)

\* the most update threads (Timer threads and force_update callers) of a run
MaxThreads == 2

Threads == 1..MaxThreads

FreeThreads == {t \in Threads : pc[t] = "free"}

\* the bodies the download can return
FetchTexts == {T_ads_exception, T_mixed, T_only_comment}

\* (entry, category) lists for direct store_easylist_entries calls
PairsOf(lines) ==
    [i \in 1..Len(lines) |-> <<lines[i], _determine_pattern_type(lines[i])>>]

StoreInputs ==
    {PairsOf(<<P_ads, P_exception_ads>>), PairsOf(<<P_exception_ads, P_ads>>)}

EvalDomains == {D_ads_com, D_example_org}

\* before any refresh has stored, or after a write that was not the refresh
\* of last_refresh.text (no download is empty: FetchTexts)
NoRefresh == [text |-> <<>>, n |-> 0]

NoObs == [domain |-> <<>>, verdict |-> FALSE, table |-> {}, cycles |-> {}]

RuleIdle ==
    /\ raw_pattern = <<>>
    /\ rule = NoRule
    /\ cand = NoCand
    /\ result = Raised("uncalled")
    /\ rpc = "idle"

\* EasyListManager.__init__ on a new database
EasyIdle ==
    /\ easylist = {}
    /\ running = TRUE
    /\ update_timer = 0
    /\ pc = [t \in Threads |-> "free"]
    /\ rules = [t \in Threads |-> <<>>]
    /\ failed = [t \in Threads |-> FALSE]
    /\ prev_set = [t \in Threads |-> {}]
    /\ response = [t \in Threads |-> <<>>]
    /\ last_refresh = NoRefresh
    /\ obs = NoObs

Init ==
    /\ RuleIdle
    /\ EasyIdle
    /\ ServerIdle
    /\ ClientIdle

\* schedule_next_update, the new Timer being thread n (no thread is taken
\* when the scheduler is stopped); newpc is pc as the calling step leaves it
\* but for the new timer
schedule_next_update(n, newpc) ==
    IF ~running
    THEN pc' = newpc /\ UNCHANGED update_timer
    ELSE /\ n \in FreeThreads
         /\ \A m \in FreeThreads : n <= m
         /\ update_timer' = n
         /\ pc' = [newpc EXCEPT ![n] = "timer"]

start_update_scheduler ==
    /\ \E n \in Threads \cup {0} : schedule_next_update(n, pc)
    /\ UNCHANGED <<rvars, svars, cvars, easylist, running, rules, failed,
                   prev_set, response, last_refresh>>
    /\ obs' = NoObs

\* Timer.cancel() stops a timer that has not fired yet
stop_update_scheduler ==
    /\ running' = FALSE
    /\ pc' = IF update_timer # 0 /\ pc[update_timer] = "timer"
             THEN [pc EXCEPT ![update_timer] = "cancelled"]
             ELSE pc
    /\ UNCHANGED <<rvars, svars, cvars, easylist, update_timer, rules,
                   failed, prev_set, response, last_refresh>>
    /\ obs' = NoObs

\* the interval of a started Timer elapses: its thread enters _perform_update
TimerFires(t) ==
    /\ pc[t] = "timer"
    /\ pc' = [pc EXCEPT ![t] = "fetch"]
    /\ UNCHANGED <<rvars, svars, cvars, easylist, running, update_timer,
                   rules, failed, prev_set, response, last_refresh>>
    /\ obs' = NoObs

\* force_update: the calling thread t enters _perform_update
force_update(t) ==
    /\ t \in FreeThreads
    /\ \A m \in FreeThreads : t <= m
    /\ pc' = [pc EXCEPT ![t] = "fetch"]
    /\ UNCHANGED <<rvars, svars, cvars, easylist, running, update_timer,
                   rules, failed, prev_set, response, last_refresh>>
    /\ obs' = NoObs

\* requests.get / raise_for_status succeed and the lines are parsed
FetchReturns(t, text) ==
    /\ pc[t] = "fetch"
    /\ response' = [response EXCEPT ![t] = text]
    /\ rules' = [rules EXCEPT ![t] = ParseRules(text)]
    /\ pc' = [pc EXCEPT ![t] = "clear"]
    /\ UNCHANGED <<rvars, svars, cvars, easylist, running, update_timer,
                   failed, prev_set, last_refresh>>
    /\ obs' = NoObs

\* a cycle that clears the table before it downloads (clear-then-fail)
FetchRaisesAfterClear(t) ==
    /\ pc[t] = "fetch"
    /\ failed' = [failed EXCEPT ![t] = TRUE]
    /\ easylist' = clear_easylist(easylist)
    /\ pc' = [pc EXCEPT ![t] = "schedule"]
    /\ UNCHANGED <<rvars, svars, cvars, running, update_timer, rules,
                   prev_set, response, last_refresh>>
    /\ obs' = NoObs

\* requests.get or raise_for_status raises: control goes to the except
\* clause, then to finally
FetchRaises(t) ==
    /\ pc[t] = "fetch"
    /\ failed' = [failed EXCEPT ![t] = TRUE]
    /\ pc' = [pc EXCEPT ![t] = "schedule"]
    /\ UNCHANGED <<rvars, svars, cvars, easylist, running, update_timer,
                   rules, prev_set, response, last_refresh>>
    /\ obs' = NoObs

\* no refresh but t's stands between its clear and its store
Alone(t) == \A u \in Threads \ {t} : pc[u] # "store"

\* self.db_manager.clear_easylist()
ClearStep(t) ==
    /\ pc[t] = "clear"
    /\ prev_set' = [prev_set EXCEPT ![t] = easylist]
    /\ easylist' = clear_easylist(easylist)
    /\ pc' = [pc EXCEPT ![t] = "store"]
    /\ last_refresh' = IF last_refresh.text = response[t] /\ Alone(t)
                       THEN last_refresh ELSE NoRefresh
    /\ UNCHANGED <<rvars, svars, cvars, running, update_timer, rules, failed,
                   response>>
    /\ obs' = NoObs

\* self.db_manager.store_easylist_entries(rules); a ValueError is caught by
\* "except Exception"
StoreStep(t) ==
    /\ pc[t] = "store"
    /\ easylist' = store_easylist_entries(easylist, rules[t]).table
    /\ pc' = [pc EXCEPT ![t] = "schedule"]
    /\ rules' = [rules EXCEPT ![t] = <<>>]
    /\ prev_set' = [prev_set EXCEPT ![t] = {}]
    /\ response' = [response EXCEPT ![t] = <<>>]
    /\ last_refresh' =
           IF ~Alone(t) THEN NoRefresh
           ELSE [text |-> response[t],
                 n    |-> IF last_refresh.text = response[t] THEN 2 ELSE 1]
    /\ UNCHANGED <<rvars, svars, cvars, running, update_timer, failed>>
    /\ obs' = NoObs

\* finally: self.schedule_next_update(), up to its test of self.running. The
\* update's thread holds no lock, so a stop_update_scheduler call can run
\* between this test and the creation of the timer.
ScheduleStep(t) ==
    /\ pc[t] = "schedule"
    /\ pc' = [pc EXCEPT ![t] = IF running THEN "arm" ELSE "done"]
    /\ UNCHANGED <<rvars, svars, cvars, easylist, running, update_timer, rules,
                   failed, prev_set, response, last_refresh>>
    /\ obs' = NoObs

\* the rest of that schedule_next_update call: the new Timer (thread n) is
\* created, stored in update_timer and started, whatever running is by now
ArmStep(t) ==
    /\ pc[t] = "arm"
    /\ \E n \in FreeThreads :
           /\ \A m \in FreeThreads : n <= m
           /\ update_timer' = n
           /\ pc' = [pc EXCEPT ![t] = "done", ![n] = "timer"]
    /\ UNCHANGED <<rvars, svars, cvars, easylist, running, rules, failed,
                   prev_set, response, last_refresh>>
    /\ obs' = NoObs

\* a thread inside _perform_update
InCycle(t) == pc[t] \in {"fetch", "clear", "store", "schedule", "arm"}

\* a DatabaseManager.store_easylist_entries call with (entry, category)
\* pairs, as its signature asks for. _perform_update is its only caller in
\* the program, so such a call is not made while a refresh is running.
StoreEntries(entries) ==
    /\ \A t \in Threads : ~InCycle(t)
    /\ easylist' = store_easylist_entries(easylist, entries).table
    /\ last_refresh' = NoRefresh
    /\ UNCHANGED <<rvars, svars, cvars, running, update_timer, pc, rules,
                   failed, prev_set, response>>
    /\ obs' = NoObs

\* the rows a cycle's rules stand for: (raw_pattern, pattern_type.value)
NewSet(rs) == {Row(rs[i][1], rs[i][2]) : i \in 1..Len(rs)}

\* a DatabaseManager.is_easylist_blocked(domain) call, under the lock; obs
\* keeps what it read and, for every refresh between its clear and the
\* return of its store, that refresh's previous and new rule set
Evaluate(domain) ==
    /\ obs' = [domain  |-> domain,
               verdict |-> is_easylist_blocked(easylist, domain),
               table   |-> easylist,
               cycles  |-> {[old |-> prev_set[t], new |-> NewSet(rules[t])] :
                               t \in {u \in Threads : pc[u] = "store"}}]
    /\ UNCHANGED <<rvars, svars, cvars, easylist, running, update_timer, pc,
                   rules, failed, prev_set, response, last_refresh>>

Next ==
    \/ start_update_scheduler
    \/ stop_update_scheduler
    \/ \E t \in Threads : TimerFires(t)
    \/ \E t \in Threads : force_update(t)
    \/ \E t \in Threads : \E text \in FetchTexts : FetchReturns(t, text)
    \/ \E t \in Threads : FetchRaises(t)
    \/ \E t \in Threads : ClearStep(t)
    \/ \E t \in Threads : StoreStep(t)
    \/ \E t \in Threads : ScheduleStep(t)
    \/ \E t \in Threads : ArmStep(t)
    \/ \E entries \in StoreInputs : StoreEntries(entries)
    \/ \E d \in EvalDomains : Evaluate(d)

Spec == Init /\ [][Next]_vars

\* the server answering its GUI client
SpecServer == Init /\ [][\E d \in ClientData : HandleClientData(d)]_vars

\* the client-handling thread and the shutdown of the server; the thread is
\* scheduled again and again as long as it has a step to take
SpecThread ==
    /\ Init
    /\ [][handle_client_thread \/ StopServer]_vars
    /\ WF_vars(handle_client_thread)

\* add_blocked_domain and remove_blocked_domain calls in any order
SpecDb ==
    Init /\ [][\E d \in {D_example_com, D_www_example_com, D_example_org,
                          D_foo_com, D_baz_com} :
                     DbAdd(d) \/ DbRemove(d)]_vars

\* the server answering the kernel module while the GUI client edits the
\* policy
SpecKernel ==
    Init /\ [][\/ \E d \in PolicyEdits : HandleClientData(d)
               \/ \E q \in KernelQueries : HandleKernelData(q)]_vars

\* the client application
SpecClient == Init /\ [][NextClient]_vars

---------------------------------------------------------------------------
(* the rule harness: construct one FilterRule, then call matches on it *)

InitRule ==
    /\ raw_pattern \in RawPatterns
    /\ rule = NoRule
    /\ cand = NoCand
    /\ result = Raised("uncalled")
    /\ rpc = "new"
    /\ EasyIdle
    /\ ServerIdle
    /\ ClientIdle

Construct ==
    /\ rpc = "new"
    /\ rule' = FilterRule(raw_pattern)
    /\ rpc' = "built"
    /\ UNCHANGED <<raw_pattern, cand, result, evars, svars, cvars>>

CallMatches(c) ==
    /\ rpc = "built"
    /\ rule.raised = "none"
    /\ cand' = c
    /\ result' = matches(rule, c.url, c.domain)
    /\ rpc' = "matched"
    /\ UNCHANGED <<raw_pattern, rule, evars, svars, cvars>>

NextRule ==
    \/ Construct
    \/ \E c \in Candidates : CallMatches(c)

SpecRule == InitRule /\ [][NextRule]_vars

---------------------------------------------------------------------------
(* properties of FilterRule, checked under SpecRule *)

\* s holds the text p
HasText(s, p) ==
    \E i \in 1..(Len(s) - Len(p) + 1) : SubSeq(s, i, i + Len(p) - 1) = p

Built == rpc # "new" /\ rule.raised = "none"

Matched == rpc = "matched"

DomainKey == <<"d", "o", "m", "a", "i", "n">>

HasDomainOption == DomainKey \in DOMAIN rule.options

\* C4: matches() is total: every call returns a boolean, and a processed
\* pattern whose regex does not compile, or a "domain" option that is not a
\* string, yields "does not match" rather than an exception.
C4_MatchesIsTotal ==
    Matched =>
        /\ result.raised = "none"
        /\ (\/ /\ rule.pattern_type \in {WILDCARD, EXCEPTION}
                /\ ~RegexCompiles(regex_pattern(rule.processed_pattern))
             \/ /\ HasDomainOption
                /\ rule.options[DomainKey].flag)
               => result = Returned(FALSE)

\* C5: constructing a rule fails if and only if the raw text is empty after
\* trimming whitespace.
C5_ParseFailsIffEmpty ==
    rpc # "new" => (rule.raised # "none" <=> Strip(raw_pattern) = <<>>)

\* the pattern type as the specification words it, Exact needing length > 1
SpecifiedType(pattern) ==
    IF StartsWith(pattern, <<"@", "@">>) THEN EXCEPTION
    ELSE IF StartsWith(pattern, <<"|", "|">>) THEN DOMAIN_T
    ELSE IF /\ StartsWith(pattern, <<"|">>)
            /\ EndsWith(pattern, <<"|">>)
            /\ Len(pattern) > 1
         THEN EXACT
    ELSE WILDCARD

\* C6: the pattern type follows the precedence @@ -> Exception, || -> Domain,
\* |...| of length greater than 1 -> Exact, otherwise Wildcard (so "|" alone
\* is Wildcard).
C6_PatternTypePrecedence ==
    Built => rule.pattern_type = SpecifiedType(Strip(raw_pattern))

\* the text of s before its first "$" (all of s when it has none)
BeforeFirst(s, c) ==
    IF Contains(s, c)
    THEN SubSeq(s, 1, (CHOOSE k \in 1..Len(s) :
                          s[k] = c /\ \A j \in 1..(k - 1) : s[j] # c) - 1)
    ELSE s

\* the text of s after its first c (only used when s contains c)
AfterFirst(s, c) ==
    SubSeq(s, (CHOOSE k \in 1..Len(s) :
                  s[k] = c /\ \A j \in 1..(k - 1) : s[j] # c) + 1, Len(s))

\* the Domain pattern as the specification words it: "||" dropped, and a
\* trailing "^" dropped only when there is one
SpecifiedDomainPattern(raw) ==
    LET pattern == BeforeFirst(Strip(raw), "$")
        body    == SliceFrom(pattern, 2)
    IN  IF EndsWith(body, <<"^">>)
        THEN SubSeq(body, 1, Len(body) - 1)
        ELSE body

\* C7: for a Domain rule the processed pattern is the pattern without its
\* options suffix, without the leading "||" and without a trailing "^" when
\* one is present; nothing else is dropped ("||example.com" gives
\* "example.com").
C7_DomainPatternKeepsLastChar ==
    Built /\ rule.pattern_type = DOMAIN_T
        => rule.processed_pattern = SpecifiedDomainPattern(raw_pattern)

\* the options as the specification words them: every token of the whole
\* text after the first "$", split at its first "="
RECURSIVE SpecifiedOptionsLoop(_, _, _)
SpecifiedOptionsLoop(opts, i, options) ==
    IF i > Len(opts) THEN options
    ELSE LET opt == opts[i]
         IN  IF Contains(opt, "=")
             THEN SpecifiedOptionsLoop(opts, i + 1,
                      (BeforeFirst(opt, "=") :> StrVal(AfterFirst(opt, "=")))
                          @@ options)
             ELSE SpecifiedOptionsLoop(opts, i + 1, (opt :> TrueVal) @@ options)

SpecifiedOptions(raw) ==
    IF Contains(raw, "$")
    THEN SpecifiedOptionsLoop(Split(AfterFirst(raw, "$"), ","), 1, NoOptions)
    ELSE NoOptions

\* C8: the options of a parsed rule come from the whole text after the first
\* "$", split on ",", each token split at its first "=" into key and string
\* value or recorded as a flag; a rule without "$" has no options.
C8_OptionsFromWholeSuffix ==
    Built => rule.options = SpecifiedOptions(raw_pattern)

\* C9: a rule with a "domain" option never matches a candidate whose domain
\* ends with none of the "|"-separated domains of the option, whatever its
\* pattern type and however well the pattern matches the url.
C9_DomainOptionRestricts ==
    (/\ Matched
     /\ HasDomainOption
     /\ \/ rule.options[DomainKey].flag
        \/ ~AnyEndsWith(cand.domain, Split(rule.options[DomainKey].str, "|")))
        => ~(result.raised = "none" /\ result.value)

\* the pattern of "ads.js$domain=foo.com|bar.com" fits the url "ads.js", the
\* candidate domain "baz.com" is not listed, and the call returned False
C9_Witness ==
    /\ Matched
    /\ raw_pattern = P_domain_opt
    /\ cand = Pair(U_ads_js, D_baz_com)
    /\ ~rule.options[DomainKey].flag
    /\ RegexSearch(regex_pattern(rule.processed_pattern), cand.url)
    /\ result = Returned(FALSE)

\* C10: a Domain rule without a domain option matches exactly the candidates
\* whose domain ends with the processed pattern as a plain string suffix;
\* the rule of "||example.com^" matches "ads.example.com" and "example.com"
\* and does not match "example.org".
C10_DomainSuffixMatch ==
    /\ (Matched /\ rule.pattern_type = DOMAIN_T /\ ~HasDomainOption)
           => /\ result.raised = "none"
              /\ result.value <=> EndsWith(cand.domain, rule.processed_pattern)
    /\ (Matched /\ raw_pattern = P_domain_caret)
           => /\ cand.domain \in {D_ads_example_com, D_example_com}
                  => result = Returned(TRUE)
              /\ cand.domain = D_example_org => result = Returned(FALSE)

\* "||example.com^" was matched against "ads.example.com" and returned True
C10_Witness ==
    /\ Matched
    /\ raw_pattern = P_domain_caret
    /\ rule.pattern_type = DOMAIN_T
    /\ ~HasDomainOption
    /\ cand = Pair(D_ads_example_com, D_ads_example_com)
    /\ result = Returned(TRUE)

\* the characters the wildcard claim is about: letters, digits, "/", "-",
\* ".", "*" and "?"
WildcardChars ==
    {"a", "b", "c", "d", "e", "f", "g", "h", "i", "j", "k", "l", "m", "n",
     "o", "p", "q", "r", "s", "t", "u", "v", "w", "x", "y", "z",
     "0", "1", "2", "3", "4", "5", "6", "7", "8", "9",
     "/", "-", ".", "*", "?"}

\* the wildcard pattern pat[i..] fits a piece of s that starts at j: "*"
\* stands for any sequence, "?" for exactly one character, every other
\* character, "." included, for itself
RECURSIVE WildcardFits(_, _, _, _)
WildcardFits(pat, i, s, j) ==
    IF i > Len(pat) THEN TRUE
    ELSE IF pat[i] = "*"
         THEN \E k \in j..(Len(s) + 1) : WildcardFits(pat, i + 1, s, k)
    ELSE IF pat[i] = "?"
         THEN j <= Len(s) /\ WildcardFits(pat, i + 1, s, j + 1)
    ELSE j <= Len(s) /\ s[j] = pat[i] /\ WildcardFits(pat, i + 1, s, j + 1)

SomeSubstringFits(pat, s) ==
    \E start \in 1..(Len(s) + 1) : WildcardFits(pat, 1, s, start)

\* C11: a Wildcard rule without a domain option whose processed pattern is
\* made of letters, digits, "/", "-", ".", "*" and "?" matches a url (a text
\* without line breaks) exactly when some substring of the url fits the
\* pattern; "/banner/*/img" matches "https://x.com/banner/foo/img".
C11_WildcardSubstringMatch ==
    /\ (/\ Matched
        /\ rule.pattern_type = WILDCARD
        /\ ~HasDomainOption
        /\ \A i \in 1..Len(rule.processed_pattern) :
               rule.processed_pattern[i] \in WildcardChars)
           => /\ result.raised = "none"
              /\ result.value
                     <=> SomeSubstringFits(rule.processed_pattern, cand.url)
    /\ (Matched /\ raw_pattern = P_banner /\ cand.url = U_banner)
           => result = Returned(TRUE)

\* "/banner/*/img" was matched against "https://x.com/banner/foo/img"
C11_Witness ==
    /\ Matched
    /\ raw_pattern = P_banner
    /\ rule.pattern_type = WILDCARD
    /\ ~HasDomainOption
    /\ cand = Pair(U_banner, D_x_com)
    /\ result = Returned(TRUE)

\* C28: the Exception rule "@@||example.com^" matches only candidates of
\* its domain: a url and domain in which "example.com" does not occur, such
\* as "example.org", is not matched.
C28_ExceptionDomainOnly ==
    (/\ Matched
     /\ raw_pattern = P_exception_domain
     /\ ~HasText(cand.url, D_example_com)
     /\ ~HasText(cand.domain, D_example_com))
        => result = Returned(FALSE)

---------------------------------------------------------------------------
(* properties of the easylist table and its refresh, checked under Spec *)

Evaluated == obs # NoObs

\* the stored rule of row matches the domain d (used as url and as domain)
RowMatches(row, d) ==
    LET r == FilterRule(row.entry)
    IN  r.raised = "none" /\ matches(r, d, d) = Returned(TRUE)

\* C1: a domain matched by an Exception rule and by a blocking rule of the
\* rule set gets the verdict "not blocked", whatever the insertion order.
C1_ExceptionPrecedence ==
    (/\ Evaluated
     /\ \E row \in obs.table :
            row.category = EXCEPTION /\ RowMatches(row, obs.domain)
     /\ \E row \in obs.table :
            row.category # EXCEPTION /\ RowMatches(row, obs.domain))
        => obs.verdict = FALSE

\* C2: an evaluation concurrent with a refresh sees the complete previous
\* rule set or the complete new one, never an empty, partial or mixed one.
C2_AtomicRefresh ==
    \A c \in obs.cycles : obs.table = c.old \/ obs.table = c.new

\* C3: a cycle whose download failed never clears or replaces the table:
\* every step it takes leaves the easylist rows as they are, and it goes
\* straight to rescheduling.
C3_FetchFailureKeepsRules ==
    [][\A t \in Threads :
           (failed'[t] /\ pc'[t] # pc[t])
               => /\ easylist' = easylist
                  /\ pc'[t] \in {"schedule", "arm", "done"}]_vars

\* a cycle whose download failed has run to its end and rules are stored
C3_Witness ==
    \E t \in Threads : failed[t] /\ pc[t] = "done" /\ easylist # {}


\* C12: a domain that no rule of the stored rule set matches is not blocked;
\* with an empty rule set, also before the first refresh, every domain is
\* allowed.
C12_DefaultAllow ==
    Evaluated =>
        /\ (\A row \in obs.table : ~RowMatches(row, obs.domain))
               => obs.verdict = FALSE
        /\ obs.table = {} => obs.verdict = FALSE

\* an evaluation of a domain that none of the stored rules matches
C12_Witness ==
    /\ Evaluated
    /\ obs.table # {}
    /\ \A row \in obs.table : ~RowMatches(row, obs.domain)
    /\ obs.verdict = FALSE


\* the lines of a list text that are neither blank nor a "!" comment nor a
\* "[" header, stripped
RuleLines(text) ==
    LET lines == Split(text, "\n")
        Keep(l) == /\ Strip(l) # <<>>
                   /\ Strip(l)[1] \notin {"!", "["}
        kept == SelectSeq(lines, Keep)
    IN  [i \in 1..Len(kept) |-> Strip(kept[i])]

Parses(line) == FilterRule(line).raised = "none"

\* C13: the rules built from a list text are, in order, exactly one rule per
\* line that is non-blank, starts with neither "!" nor "[" and parses; a line
\* that fails to parse is passed over and the lines after it are still read.
C13_OneRulePerParsedLine ==
    \A t \in Threads :
        pc[t] \in {"clear", "store"} =>
            LET good == SelectSeq(RuleLines(response[t]), Parses)
            IN  /\ Len(rules[t]) = Len(good)
                /\ \A i \in 1..Len(good) :
                       /\ rules[t][i][1] = good[i]
                       /\ rules[t][i][2] = FilterRule(good[i]).pattern_type
                       /\ rules[t][i][3] = FilterRule(good[i]).processed_pattern

\* a list with blank, comment and header lines and a line that fails to
\* parse before a line that parses has been built into one rule
C13_Witness ==
    \E t \in Threads :
        /\ pc[t] = "store"
        /\ response[t] = T_mixed
        /\ Len(RuleLines(response[t])) = 2
        /\ ~Parses(RuleLines(response[t])[1])
        /\ Len(rules[t]) = 1
        /\ rules[t][1][1] = P_domain_caret


\* C14: a refresh that follows, with nothing written in between, a refresh
\* of the same list text leaves a table that gives every domain the verdict
\* it had after the first one (prev_set is the table the first one left).
C14_RefreshIdempotent ==
    [][\A t \in Threads :
           (/\ pc[t] = "store" /\ pc'[t] = "schedule"
            /\ last_refresh.n >= 1
            /\ last_refresh.text = response[t])
               => \A d \in EvalDomains :
                      is_easylist_blocked(easylist', d)
                          = is_easylist_blocked(prev_set[t], d)]_vars

\* the same list, with rules in it, has been refreshed twice in a row
C14_Witness ==
    /\ last_refresh.n = 2
    /\ last_refresh.text = T_ads_exception
    /\ \E t \in Threads : pc[t] = "schedule"

\* the update timers that are started and have neither fired nor been
\* cancelled
PendingTimers == {t \in Threads : pc[t] = "timer"}

\* C26: once stop_update_scheduler has returned (running is false from then
\* on) no update timer is pending, so that no further update is started,
\* however the stop call interleaves with a running or rescheduling update.
C26_StopLeavesNoTimer ==
    ~running => PendingTimers = {}

\* C27: at any time at most one update timer is pending, after any sequence
\* of start_update_scheduler, force_update and timer-fired updates.
C27_AtMostOnePendingTimer ==
    Cardinality(PendingTimers) <= 1


---------------------------------------------------------------------------
(* properties of the request handlers and of the GUI-client loop, checked  *)
(* under SpecServer                                                        *)

\* the request just handled is the dict {code: c, content: <a str>}
StrRequest(d, c) ==
    /\ d.bytes = "json"
    /\ d.request_data.kind = "dict"
    /\ d.request_data.code = CStr(c)
    /\ d.request_data.content.t = "str"

\* the name with "www." in front exactly when it does not start with it
SpecifiedName(name) ==
    IF Len(name) >= 4 /\ SubSeq(name, 1, 4) = <<"w", "w", "w", ".">>
    THEN name
    ELSE <<"w", "w", "w", ".">> \o name

Active(table, d) == DomainRow(d, TRUE) \in table

\* C15: an add-domain or remove-domain request touches no row but that of
\* the requested name with "www." in front exactly when the name does not
\* start with it; a successful one answers with that name and leaves its row
\* active (add) or inactive (remove); normalising twice is normalising once.
C15_WwwPrefixNormalisation ==
    [][\A c \in {CODE_ADD_DOMAIN, CODE_REMOVE_DOMAIN} :
           StrRequest(data', c) =>
               LET name == data'.request_data.content.v
                   d == SpecifiedName(name)
               IN  /\ \A row \in blocked_domains \cup blocked_domains' :
                          row.domain # d
                              => row \in blocked_domains \cap blocked_domains'
                   /\ sent'[1].code = CODE_SUCCESS
                          => /\ sent'[1].content = d
                             /\ DomainRow(d, c = CODE_ADD_DOMAIN)
                                    \in blocked_domains'
                   /\ WithWww(WithWww(name)) = WithWww(name)]_vars

\* "example.com" was added: the row of "www.example.com" is active; the
\* name "www.example.com" has no doubled prefix anywhere in the table
C15_Witness ==
    /\ data = Json(Dict(CStr(CODE_ADD_DOMAIN), JStr(D_example_com)))
    /\ sent[1].code = CODE_SUCCESS
    /\ sent[1].content = D_www_example_com
    /\ Active(blocked_domains, D_www_example_com)

\* C16: an add-domain request for a name that is in the active block list is
\* answered with CODE_ERROR and a message that holds "already blocked", and
\* the block list is left as it was.
C16_AddAlreadyBlocked ==
    [][(/\ StrRequest(data', CODE_ADD_DOMAIN)
        /\ Active(blocked_domains,
                  SpecifiedName(data'.request_data.content.v)))
           => /\ Len(sent') = 1
              /\ sent'[1].code = CODE_ERROR
              /\ HasText(sent'[1].content,
                         <<"a", "l", "r", "e", "a", "d", "y", " ", "b", "l", "o", "c", "k", "e", "d">>)
              /\ blocked_domains' = blocked_domains]_vars

\* an add of "example.com" was refused while "www.example.com" is active
C16_Witness ==
    /\ data = Json(Dict(CStr(CODE_ADD_DOMAIN), JStr(D_example_com)))
    /\ Active(blocked_domains, D_www_example_com)
    /\ sent[1].code = CODE_ERROR
    /\ sent[1].content = AlreadyBlockedMsg(D_www_example_com)

\* C17: a remove-domain request is answered with CODE_SUCCESS if and only if
\* the normalised name is in the active block list when it is handled, and
\* with CODE_ERROR otherwise (so a second remove in a row gets CODE_ERROR).
C17_RemoveSucceedsIffActive ==
    [][StrRequest(data', CODE_REMOVE_DOMAIN) =>
           LET d == SpecifiedName(data'.request_data.content.v)
           IN  sent'[1].code = IF Active(blocked_domains, d)
                               THEN CODE_SUCCESS
                               ELSE CODE_ERROR]_vars

\* the codes RequestFactory has a handler for
HandlerCodes ==
    {CODE_AD_BLOCK, CODE_ADULT_BLOCK, CODE_ADD_DOMAIN, CODE_REMOVE_DOMAIN,
     CODE_INIT_SETTINGS}

\* C18: every request handed to RequestFactory.handle_request gets one
\* response whose code is CODE_SUCCESS or CODE_ERROR; a request whose code is
\* unknown or missing, or an add, remove or toggle request without content,
\* gets CODE_ERROR and changes neither the block list nor a setting.
C18_FactoryAlwaysAnswers ==
    [][data'.bytes = "json" =>
           LET r == data'.request_data
           IN  /\ factory_calls' = <<r>>
               /\ Len(sent') = 1
               /\ "code" \in sent'[1].keys
               /\ sent'[1].code \in {CODE_SUCCESS, CODE_ERROR}
               /\ (\/ r.kind # "dict"
                   \/ r.code.t # "str"
                   \/ r.code.v \notin HandlerCodes
                   \/ /\ r.code.v # CODE_INIT_SETTINGS
                      /\ r.content = Absent)
                      => /\ sent'[1].code = CODE_ERROR
                         /\ blocked_domains' = blocked_domains
                         /\ feature_states' = feature_states]_vars

\* an add request without content was refused with a domain in the list
C18_Witness ==
    /\ data = Json(Dict(CStr(CODE_ADD_DOMAIN), Absent))
    /\ factory_calls = <<Dict(CStr(CODE_ADD_DOMAIN), Absent)>>
    /\ sent = <<invalid_json_response>>
    /\ Active(blocked_domains, D_www_example_com)

\* C19: bytes of the GUI client that are no JSON get exactly one response,
\* whose "code" field is CODE_ERROR, and the request factory is not called.
C19_InvalidJsonGetsCodeError ==
    data.bytes = "text" =>
        /\ Len(sent) = 1
        /\ "code" \in sent[1].keys
        /\ sent[1].code = CODE_ERROR
        /\ factory_calls = <<>>

\* the request just handled is a toggle of ad_block or adult_block
ToggleRequest(d) ==
    /\ d.bytes = "json"
    /\ d.request_data.kind = "dict"
    /\ d.request_data.code \in {CStr(CODE_AD_BLOCK), CStr(CODE_ADULT_BLOCK)}

\* the DNS configuration the specification names for a stored pair
DnsFor(ad, adult) ==
    CASE ad = STR_TOGGLE_ON /\ adult = STR_TOGGLE_ON -> "adguard_family"
      [] ad = STR_TOGGLE_ON /\ adult # STR_TOGGLE_ON -> "adguard"
      [] ad # STR_TOGGLE_ON /\ adult = STR_TOGGLE_ON -> "cloudflare"
      [] OTHER -> "reset"

---------------------------------------------------------------------------
(* properties of the kernel connection, checked under SpecKernel *)

\* the domain of the kernel query read last, as the server takes it
KernelDomain == Strip(kernel.query.domain)

\* C23: for a kernel query with a non-empty domain exactly one response is
\* written; its block is true exactly when the domain is in the custom block
\* list, or ad_block is 'on' and the query is flagged is_ad, or adult_block
\* is 'on' and 'adult' is among its categories; its reason is the first of
\* custom_blocklist, ads, adult_content that applies, 'allowed' otherwise.
C23_KernelVerdict ==
    KernelDomain # <<>> =>
        LET custom == Active(blocked_domains, KernelDomain)
            ads == /\ feature_states[STR_AD_BLOCK] = JStr(STR_TOGGLE_ON)
                   /\ kernel.query.is_ad
            adult == /\ feature_states[STR_ADULT_BLOCK] = JStr(STR_TOGGLE_ON)
                     /\ kernel.query.adult
        IN  /\ Len(kernel.written) = 1
            /\ kernel.written[1].domain = KernelDomain
            /\ kernel.written[1].block = (custom \/ ads \/ adult)
            /\ kernel.written[1].reason =
                   IF custom THEN "custom_blocklist"
                   ELSE IF ads THEN "ads"
                   ELSE IF adult THEN "adult_content"
                   ELSE "allowed"

\* C25: a kernel query for the name d that follows a successful add-domain
\* request for d, with no GUI request in between, is answered with block =
\* true and reason custom_blocklist.
C25_AddedDomainIsBlocked ==
    (/\ StrRequest(data, CODE_ADD_DOMAIN)
     /\ sent[1].code = CODE_SUCCESS
     /\ KernelDomain # <<>>
     /\ KernelDomain = data.request_data.content.v)
        => /\ Len(kernel.written) = 1
           /\ kernel.written[1].block
           /\ kernel.written[1].reason = "custom_blocklist"


---------------------------------------------------------------------------
(* properties of the blocked_domains table, checked under SpecDb *)

\* C29: after any sequence of add_blocked_domain and remove_blocked_domain
\* calls, is_domain_blocked(d) is true exactly when the last call on d was
\* an add (so an add after a remove makes d active again), and
\* get_blocked_domains lists exactly those domains, each once.
C29_BlockedIffLastCallAdded ==
    /\ \A d \in last_add \cup {row.domain : row \in blocked_domains} :
           is_domain_blocked(blocked_domains, d) <=> d \in last_add
    /\ get_blocked_domains(blocked_domains) = [d \in last_add |-> 1]

\* the last call on one domain was an add, another domain was added and
\* then removed, a third one is active
C29_Witness ==
    /\ D_example_com \in last_add
    /\ D_example_org \notin last_add
    /\ DomainRow(D_example_org, FALSE) \in blocked_domains
    /\ DomainRow(D_foo_com, TRUE) \in blocked_domains


---------------------------------------------------------------------------
(* properties of the client-handling thread, checked under SpecThread *)

\* C30: once Server.running is false the client-handling thread eventually
\* terminates, whatever the connected client does, and by then the
\* listening socket and every accepted connection have each been closed
\* exactly once.
C30_ThreadTerminates ==
    (~Server_running) ~> (/\ client_thread = "done"
                          /\ closes.listening = 1
                          /\ closes.conn = conns)


---------------------------------------------------------------------------
(* properties of the client application, checked under SpecClient *)

\* the operation codes _handle_request has a Viewer method for
ViewOperations ==
    {CODE_INIT_SETTINGS, CODE_AD_BLOCK, CODE_ADULT_BLOCK, CODE_ADD_DOMAIN,
     CODE_REMOVE_DOMAIN, CODE_DOMAIN_LIST_UPDATE}

\* C20: a message received from the server is handed to the Viewer method
\* its operation code selects (CODE_DOMAIN_LIST_UPDATE to
\* update_domain_list_response, ...) and nothing is written back to the
\* socket for it; only requests of the GUI are sent to the server.
C20_ServerMessagesDispatched ==
    (/\ delivered.origin = "server"
     /\ delivered.message.kind = "dict"
     /\ delivered.message.operation \in ViewOperations)
        => /\ view_call = ViewHandler(delivered.message.operation)
           /\ view_call # "none"
           /\ outbound = <<>>
           /\ receiver = "running"

\* C21: a send_message or receive_message that runs while no socket is
\* established (before connect, after close, or in a receive loop that a
\* close overtook) fails with RuntimeError, and nothing is sent or delivered
\* to the callback by it.
C21_NoSocketMeansRuntimeError ==
    (_socket = "None" /\ fault.call # "none")
        => /\ fault.exc = "RuntimeError"
           /\ outbound = <<>>

====
